---- MODULE Spec2Model ----
(***************************************************************************)
(* Model of src/app.py: the Streamlit dashboard "Panorama do Stricto Sensu *)
(* em Ciências Naturais".                                                   *)
(*                                                                         *)
(* A DataFrame is a record [columns, rows]: columns is the ordered list of *)
(* column names, rows the ordered list of rows, each row a function from   *)
(* the column names to cell values.  A missing number is NaN, a missing    *)
(* string is None.                                                         *)
(***************************************************************************)
EXTENDS Integers, Sequences, FiniteSets, TLC

VARIABLES
    raw,              \* what pd.read_parquet returns (line 48)
    cache,            \* the value st.cache_data keeps for carregar_dados
    erro,             \* the exception that ended the last script run, or ""
    dimensao,         \* widget state (lines 107-123)
    metrica,
    estados,
    municipios,
    coredes,
    ies_list,
    status_juridico,
    ano_range,
    filtered_df,      \* the frames and values the last script run computed
    grouped_df,
    cagr,
    ies_stats,
    top_ies

vars == <<raw, cache, erro, dimensao, metrica, estados, municipios, coredes,
          ies_list, status_juridico, ano_range, filtered_df, grouped_df,
          cagr, ies_stats, top_ies>>

widgets == <<dimensao, metrica, estados, municipios, coredes, ies_list,
             status_juridico, ano_range>>

saidas == <<filtered_df, grouped_df, cagr, ies_stats, top_ies>>

----------------------------------------------------------------------------
(* Bounds of the model. *)

\* most rows a dataset read from the parquet file has
MaxRows == 3

\* most values selected at once over the five multiselect widgets
MaxSelecionados == 2

\* most columns absent from a parquet file
MaxAusentes == 2

\* most institutions in a parquet file
MaxIES == 16

----------------------------------------------------------------------------
(* Cell values and small helpers. *)

\* pandas' missing number
NaN == -1

\* a missing string cell of an object column
None == "<None>"

\* a name no frame is bound to yet in this script run; also pd.DataFrame()
Indefinido == [columns |-> <<>>, rows |-> <<>>]

Range(s) == {s[i] : i \in DOMAIN s}

\* the function f on 1..n as a list
Lista(f) == f \o <<>>

RECURSIVE SumSeq(_)
SumSeq(s) == IF s = <<>> THEN 0 ELSE Head(s) + SumSeq(Tail(s))

Max(S) == CHOOSE x \in S : \A y \in S : y <= x

Min(S) == CHOOSE x \in S : \A y \in S : x <= y

\* position of the first element of s equal to v (0 when there is none)
IndexOf(s, v) ==
    IF \E i \in DOMAIN s : s[i] = v
    THEN Min({i \in DOMAIN s : s[i] = v})
    ELSE 0

\* Python's ordering of the strings the model uses (code-point order)
Alfabetico ==
    <<"Astronomia / Física", "Federal", "Florianópolis", "Física",
      "Geociências", "Geologia",
      "IES 01", "IES 02", "IES 03", "IES 04", "IES 05", "IES 06", "IES 07",
      "IES 08", "IES 09", "IES 10", "IES 11", "IES 12", "IES 13", "IES 14",
      "IES 15", "IES 16", "IES 17", "IES 18",
      "Metropolitano", "NA", "None", "Não informado", "Porto Alegre",
      "Privada", "Química", "RS", "SC", "UFRGS", "UFSC">>

Posicao == [t \in Range(Alfabetico) |-> IndexOf(Alfabetico, t)]

StrLeq(a, b) == Posicao[a] <= Posicao[b]

\* the column names of the program
colunas_matriculados ==
    <<"Doutorado - Matriculado", "Doutorado Profissional - Matriculado",
      "Mestrado - Matriculado", "Mestrado Profissional - Matriculado">>

Dimensoes == <<"Programa", "Área de Avaliação", "Área de Conhecimento">>

Metricas == colunas_matriculados \o <<"Total Matriculados">>

\* text -> number as pd.to_numeric(errors='coerce') converts the year cells
to_numeric(v) ==
    CASE v = "2019" -> 2019
      [] v = "2020" -> 2020
      [] v = "2021" -> 2021
      [] OTHER -> NaN

\* Series.fillna on a cell of an object column
fillna(v, padrao) == IF v = None THEN padrao ELSE v

\* Series.fillna(0).astype(int) on a cell of a count column
fillna0_int(v) == IF v = NaN THEN 0 ELSE v

\* str(x) of a cell of an object column: None becomes the text "None"
astype_str(v) == IF v = None THEN "None" ELSE v

----------------------------------------------------------------------------
(* DataFrame operations. *)

HasColumn(df, col) == \E i \in DOMAIN df.columns : df.columns[i] = col

\* df[col] = [f(row) for each row]: replaces the column or appends it
SetColumn(df, col, f(_)) ==
    [columns |-> IF HasColumn(df, col) THEN df.columns
                 ELSE Append(df.columns, col),
     rows |-> Lista([i \in DOMAIN df.rows |->
                       (col :> f(df.rows[i])) @@ df.rows[i]])]

\* df[mask]: the rows that satisfy the predicate, in order
Filtrar(df, p(_)) ==
    [columns |-> df.columns, rows |-> SelectSeq(df.rows, p)]

\* df[col].unique(), as a set
Unique(df, col) == {df.rows[i][col] : i \in DOMAIN df.rows}

\* df.empty
Empty(df) == df.rows = <<>> \/ df.columns = <<>>

\* mapa_colunas (lines 54-58)
mapa_colunas(col) ==
    CASE col = "UF" -> "Estado"
      [] col = "Área Avaliação" -> "Área de Avaliação"
      [] col = "Área Conhecimento" -> "Área de Conhecimento"
      [] OTHER -> col

\* a row with its cells under the new column names
RECURSIVE RenameCols(_, _)
RenameCols(r, cols) ==
    IF cols = {} THEN <<>>
    ELSE LET k == CHOOSE x \in cols : TRUE
         IN (mapa_colunas(k) :> r[k]) @@ RenameCols(r, cols \ {k})

RenameRow(r) == RenameCols(r, DOMAIN r)

\* df.rename(columns=mapa_colunas, inplace=True)
Rename(df) ==
    [columns |-> Lista([i \in DOMAIN df.columns |->
                          mapa_colunas(df.columns[i])]),
     rows |-> Lista([i \in DOMAIN df.rows |-> RenameRow(df.rows[i])])]

\* Python's `pat in str(col)` over the column names the model uses
Contem(col, pat) ==
    <<col, pat>> \in
        {<<"COREDE", "COREDE">>, <<"Nome COREDE", "COREDE">>,
         <<"IES", "IES">>, <<"Sigla IES", "IES">>,
         <<"Status Jurídico", "Status">>, <<"Status Jurídico", "Jurídico">>,
         <<"Categoria Administrativa", "Categoria">>}

\* [col for col in df.columns if some pattern in str(col)], in column order
ColunasParecidas(df, pats) ==
    SelectSeq(df.columns, LAMBDA col : \E pat \in pats : Contem(col, pat))

----------------------------------------------------------------------------
(* carregar_dados (lines 46-100). *)

\* the COREDE column (lines 61-69)
TratarCorede(df) ==
    IF ~HasColumn(df, "COREDE")
    THEN LET corede_cols == ColunasParecidas(df, {"COREDE"})
         IN IF corede_cols # <<>>
            THEN SetColumn(df, "COREDE",
                           LAMBDA r : astype_str(r[corede_cols[1]]))
            ELSE SetColumn(df, "COREDE", LAMBDA r : "NA")
    ELSE SetColumn(df, "COREDE",
                   LAMBDA r : astype_str(fillna(r["COREDE"], "NA")))

\* the loop over colunas_matriculados (lines 76-77), all columns present
TratarMatriculados(df) ==
    LET col(k) == colunas_matriculados[k]
        passo(d, k) == SetColumn(d, col(k), LAMBDA r : fillna0_int(r[col(k)]))
    IN passo(passo(passo(passo(df, 1), 2), 3), 4)

\* the IES column (lines 80-86)
TratarIES(df) ==
    IF ~HasColumn(df, "IES")
    THEN LET ies_cols == ColunasParecidas(df, {"IES", "Instituição"})
         IN IF ies_cols # <<>>
            THEN SetColumn(df, "IES", LAMBDA r : r[ies_cols[1]])
            ELSE SetColumn(df, "IES", LAMBDA r : "Não informado")
    ELSE df

\* the Status Jurídico column (lines 88-94)
TratarStatus(df) ==
    IF ~HasColumn(df, "Status Jurídico")
    THEN LET status_cols ==
                 ColunasParecidas(df, {"Status", "Jurídico", "Categoria"})
         IN IF status_cols # <<>>
            THEN SetColumn(df, "Status Jurídico", LAMBDA r : r[status_cols[1]])
            ELSE SetColumn(df, "Status Jurídico", LAMBDA r : "Não informado")
    ELSE df

\* the null treatment of the two columns (lines 97-98)
TratarNulos(df) ==
    LET d1 == SetColumn(df, "IES",
                        LAMBDA r : fillna(r["IES"], "Não informado"))
    IN SetColumn(d1, "Status Jurídico",
                 LAMBDA r : fillna(r["Status Jurídico"], "Não informado"))

\* the first count column the loop of lines 76-77 does not find ("" if none)
MatriculadoAusente(df) ==
    LET faltam == SelectSeq(colunas_matriculados,
                            LAMBDA c : ~HasColumn(df, c))
    IN IF faltam = <<>> THEN "" ELSE faltam[1]

\* carregar_dados applied to the frame read from the parquet file: the
\* frame it returns, or the KeyError a missing column raises
carregar_dados(tabela) ==
    IF ~HasColumn(tabela, "Ano")
    THEN [erro |-> "KeyError: Ano", df |-> Indefinido]
    ELSE LET d1 == SetColumn(tabela, "Ano", LAMBDA r : to_numeric(r["Ano"]))
             d2 == Rename(d1)
             d3 == TratarCorede(d2)
         IN IF MatriculadoAusente(d3) # ""
            THEN [erro |-> "KeyError: " \o MatriculadoAusente(d3),
                  df |-> Indefinido]
            ELSE [erro |-> "",
                  df |-> TratarNulos(TratarStatus(TratarIES(
                             TratarMatriculados(d3))))]

----------------------------------------------------------------------------
(* The rows the parquet files of the model are made of. *)

ColunasArquivo ==
    <<"Ano", "UF", "Município", "COREDE", "IES", "Status Jurídico",
      "Programa", "Área Avaliação", "Área Conhecimento">>
    \o colunas_matriculados

Registro(ano, uf, mun, corede, ies, status, prog, aval, conh, d, dp, m, mp) ==
    [c \in Range(ColunasArquivo) |->
        CASE c = "Ano" -> ano
          [] c = "UF" -> uf
          [] c = "Município" -> mun
          [] c = "COREDE" -> corede
          [] c = "IES" -> ies
          [] c = "Status Jurídico" -> status
          [] c = "Programa" -> prog
          [] c = "Área Avaliação" -> aval
          [] c = "Área Conhecimento" -> conh
          [] c = colunas_matriculados[1] -> d
          [] c = colunas_matriculados[2] -> dp
          [] c = colunas_matriculados[3] -> m
          [] c = colunas_matriculados[4] -> mp]

\* the rows a parquet file of the model is made of
Registros ==
    <<Registro("2019", "RS", "Porto Alegre", "Metropolitano", "UFRGS",
               "Federal", "Física", "Astronomia / Física", "Física",
               100, 0, 300, 0),
      Registro("2020", "RS", "Porto Alegre", "Metropolitano", "UFRGS",
               "Federal", "Física", "Astronomia / Física", "Física",
               121, 5, 300, NaN),
      Registro("2019", "SC", "Florianópolis", None, "UFSC",
               None, "Química", "Química", "Química",
               50, 4, NaN, 20)>>

\* a row whose year is no number and whose institution is missing
RegistroSemAno ==
    Registro("s/d", "RS", "Porto Alegre", "Metropolitano", None,
             "Federal", "Física", "Astronomia / Física", "Física",
             7, 0, NaN, 0)

----------------------------------------------------------------------------
(* The script body after the load (lines 105-235). *)

\* the widget values of one script run
Widgets(dim, met, est, mun, cor, ies, sta, anos) ==
    [dimensao |-> dim, metrica |-> met, estados |-> est, municipios |-> mun,
     coredes |-> cor, ies_list |-> ies, status_juridico |-> sta,
     ano_range |-> anos]

\* the years of df that are numbers (min() and max() skip NaN)
AnosValidos(df) == Unique(df, "Ano") \ {NaN}

\* a faulty variant of the filters: a multiselect drops the selected
\* values instead of keeping them
filtered_excluindo(df, w) ==
    LET f1 == Filtrar(df, LAMBDA r : /\ r["Ano"] # NaN
                                     /\ r["Ano"] >= w.ano_range[1]
                                     /\ r["Ano"] <= w.ano_range[2])
    IN Filtrar(f1, LAMBDA r : /\ r["Estado"] \notin w.estados
                              /\ r["Município"] \notin w.municipios
                              /\ r["COREDE"] \notin w.coredes
                              /\ r["IES"] \notin w.ies_list
                              /\ r["Status Jurídico"] \notin w.status_juridico)

\* the filters (lines 126-137); an empty selection does not filter
filtered(df, w) ==
    LET f0 == df
        f1 == Filtrar(f0, LAMBDA r : /\ r["Ano"] # NaN
                                     /\ r["Ano"] >= w.ano_range[1]
                                     /\ r["Ano"] <= w.ano_range[2])
        f2 == IF w.estados # {}
              THEN Filtrar(f1, LAMBDA r : r["Estado"] \in w.estados)
              ELSE f1
        f3 == IF w.municipios # {}
              THEN Filtrar(f2, LAMBDA r : r["Município"] \in w.municipios)
              ELSE f2
        f4 == IF w.coredes # {}
              THEN Filtrar(f3, LAMBDA r : r["COREDE"] \in w.coredes)
              ELSE f3
        f5 == IF w.ies_list # {}
              THEN Filtrar(f4, LAMBDA r : r["IES"] \in w.ies_list)
              ELSE f4
    IN IF w.status_juridico # {}
       THEN Filtrar(f5, LAMBDA r : r["Status Jurídico"] \in w.status_juridico)
       ELSE f5

\* the derived column (lines 140-141)
ComTotal(fdf, w) ==
    IF w.metrica = "Total Matriculados"
    THEN SetColumn(fdf, "Total Matriculados",
                   LAMBDA r : r[colunas_matriculados[1]]
                              + r[colunas_matriculados[2]]
                              + r[colunas_matriculados[3]]
                              + r[colunas_matriculados[4]])
    ELSE fdf

\* the sum of column col over the rows of df that satisfy p
SomaOnde(df, col, p(_)) ==
    LET sel == SelectSeq(df.rows, p)
    IN SumSeq(Lista([i \in DOMAIN sel |-> sel[i][col]]))

\* the order of the (Ano, dimension value) keys
ChaveLeq(a, b) == \/ a[1] < b[1]
                  \/ a[1] = b[1] /\ StrLeq(a[2], b[2])

\* the group keys in ascending order, as pandas' groupby sorts them
RECURSIVE OrdenarChaves(_)
OrdenarChaves(S) ==
    IF S = {} THEN <<>>
    ELSE LET m == CHOOSE x \in S : \A y \in S : ChaveLeq(x, y)
         IN <<m>> \o OrdenarChaves(S \ {m})

RECURSIVE OrdenarTextos(_)
OrdenarTextos(S) ==
    IF S = {} THEN <<>>
    ELSE LET m == CHOOSE x \in S : \A y \in S : StrLeq(x, y)
         IN <<m>> \o OrdenarTextos(S \ {m})

\* a faulty variant of the grouping: the sum of a row runs over the whole
\* year, whatever the dimension value
agrupar_por_ano(fdf, w) ==
    LET chaves == {<<fdf.rows[i]["Ano"], fdf.rows[i][w.dimensao]>> :
                      i \in DOMAIN fdf.rows}
        ord == OrdenarChaves(chaves)
    IN [columns |-> <<"Ano", w.dimensao, w.metrica>>,
        rows |-> Lista([k \in DOMAIN ord |->
                    ("Ano" :> ord[k][1]) @@ (w.dimensao :> ord[k][2]) @@
                    (w.metrica :>
                        SomaOnde(fdf, w.metrica,
                                 LAMBDA r : r["Ano"] = ord[k][1]))])]

\* filtered_df.groupby(['Ano', dimensao])[metrica].sum().reset_index()
agrupar(fdf, w) ==
    LET chaves == {<<fdf.rows[i]["Ano"], fdf.rows[i][w.dimensao]>> :
                      i \in DOMAIN fdf.rows}
        ord == OrdenarChaves(chaves)
    IN [columns |-> <<"Ano", w.dimensao, w.metrica>>,
        rows |-> Lista([k \in DOMAIN ord |->
                    ("Ano" :> ord[k][1]) @@ (w.dimensao :> ord[k][2]) @@
                    (w.metrica :>
                        SomaOnde(fdf, w.metrica,
                                 LAMBDA r : /\ r["Ano"] = ord[k][1]
                                            /\ r[w.dimensao] = ord[k][2]))])]

\* the value calcular_cagr returns: (num/den)^(1/raiz) - 1, the fraction
\* num/den in lowest terms; the literal 0 is (1/1)^(1/1) - 1
RECURSIVE Mdc(_, _)
Mdc(a, b) == IF b = 0 THEN a ELSE Mdc(b, a % b)

Zero == [num |-> 1, den |-> 1, raiz |-> 1]

\* a faulty variant of calcular_cagr: a first value of 0 is divided by
calcular_cagr_sem_guarda(valores, anos) ==
    IF Len(valores) < 2 THEN Zero
    ELSE LET primeiro_valor == valores[1]
             ultimo_valor == valores[Len(valores)]
             num_anos == anos[Len(anos)] - anos[1]
             g == Mdc(ultimo_valor, primeiro_valor)
         IN IF num_anos = 0 \/ g = 0 THEN Zero
            ELSE [num |-> ultimo_valor \div g, den |-> primeiro_valor \div g,
                  raiz |-> num_anos]

\* calcular_cagr (lines 33-43); valores holds sums of counts, never NaN
calcular_cagr(valores, anos) ==
    IF Len(valores) < 2 THEN Zero
    ELSE LET primeiro_valor == valores[1]
             ultimo_valor == valores[Len(valores)]
             num_anos == anos[Len(anos)] - anos[1]
             g == Mdc(ultimo_valor, primeiro_valor)
         IN IF primeiro_valor = 0 \/ primeiro_valor = NaN THEN Zero
            ELSE IF num_anos = 0 THEN Zero
            ELSE [num |-> ultimo_valor \div g, den |-> primeiro_valor \div g,
                  raiz |-> num_anos]

\* column col of df as a list
Coluna(df, col) == Lista([i \in DOMAIN df.rows |-> df.rows[i][col]])

\* the CAGR block (lines 176-178): nothing is computed for an empty table
NaoCalculado == [calculado |-> FALSE, valor |-> Zero]

\* a faulty variant of the CAGR block: computed for an empty table too
cagr_sem_guarda(gdf, w) ==
    [calculado |-> TRUE,
     valor |-> calcular_cagr(Coluna(gdf, w.metrica), Coluna(gdf, "Ano"))]

cagr_exibido(gdf, w) ==
    IF ~Empty(gdf)
    THEN [calculado |-> TRUE,
          valor |-> calcular_cagr(Coluna(gdf, w.metrica), Coluna(gdf, "Ano"))]
    ELSE NaoCalculado

----------------------------------------------------------------------------
(* The ranking of institutions (lines 182-235). *)

\* rows shown in the chart (line 196)
TopN == 15

\* round(x, 2) of x = a / b, in hundredths: to nearest, ties to even
Round2(a, b) ==
    LET q == (a * 100) \div b
        r == (a * 100) % b
    IN IF 2 * r > b \/ (2 * r = b /\ q % 2 = 1) THEN q + 1 ELSE q

\* a faulty variant of the market share: truncated, not rounded
MarketShare_truncado(valor, total_geral) ==
    IF total_geral = 0 THEN NaN ELSE (valor * 10000) \div total_geral

\* (valor / total_geral * 100).round(2), held in hundredths of a percent
\* (7500 is 75.00); 0 / 0 is NaN and no exception
MarketShare(valor, total_geral) ==
    IF total_geral = 0 THEN NaN ELSE Round2(valor * 100, total_geral)

\* filtered_df.groupby('IES')[metrica].sum().reset_index() with the
\* 'Market Share (%)' column (lines 184-190)
ies_agrupado(fdf, w) ==
    LET nomes == OrdenarTextos(Unique(fdf, "IES"))
        somas == Lista([k \in DOMAIN nomes |->
                    SomaOnde(fdf, w.metrica, LAMBDA r : r["IES"] = nomes[k])])
        total_geral == SumSeq(somas)
    IN [columns |-> <<"IES", w.metrica, "Market Share (%)">>,
        rows |-> Lista([k \in DOMAIN nomes |->
                    ("IES" :> nomes[k]) @@ (w.metrica :> somas[k]) @@
                    ("Market Share (%)" :>
                        MarketShare(somas[k], total_geral))])]

\* sort_values(col, ascending=False): the default sort is not stable, so
\* every order of the rows that is non-increasing in col can come out
RECURSIVE OrdensDesc(_, _, _)
OrdensDesc(rs, col, I) ==
    IF I = {} THEN {<<>>}
    ELSE LET mx == Max({rs[i][col] : i \in I})
         IN UNION {{<<rs[i]>> \o t : t \in OrdensDesc(rs, col, I \ {i})} :
                      i \in {j \in I : rs[j][col] = mx}}

sort_values(df, col) ==
    {[columns |-> df.columns, rows |-> o] :
        o \in OrdensDesc(df.rows, col, DOMAIN df.rows)}

\* a faulty variant of head: the last n rows
head_fim(df, n) ==
    [columns |-> df.columns,
     rows |-> SubSeq(df.rows,
                     IF Len(df.rows) < n THEN 1 ELSE Len(df.rows) - n + 1,
                     Len(df.rows))]

\* df.head(n)
head(df, n) ==
    [columns |-> df.columns,
     rows |-> SubSeq(df.rows, 1, IF Len(df.rows) < n THEN Len(df.rows) ELSE n)]

\* top_ies (lines 196-199); the label is held as the pair it is built from
top_ies_de(ordenado) ==
    SetColumn(head(ordenado, TopN), "IES_com_share",
              LAMBDA r : <<r["IES"], r["Market Share (%)"]>>)

\* the table of the expander (lines 233-234)
ies_stats_de(ordenado, w) ==
    [columns |-> <<"Ranking", "IES", w.metrica, "Market Share (%)">>,
     rows |-> Lista([k \in DOMAIN ordenado.rows |->
                       ("Ranking" :> k) @@ ordenado.rows[k]])]

----------------------------------------------------------------------------
(* One run of the script. *)

\* what a run over df with widget values w can compute (lines 126-235)
Execucoes(df, w) ==
    LET fdf == ComTotal(filtered(df, w), w)
        gdf == agrupar(fdf, w)
        c == cagr_exibido(gdf, w)
    IN IF ~Empty(fdf)
       THEN {[filtered_df |-> fdf, grouped_df |-> gdf, cagr |-> c,
              ies_stats |-> ies_stats_de(o, w), top_ies |-> top_ies_de(o)] :
                o \in sort_values(ies_agrupado(fdf, w), w.metrica)}
       ELSE {[filtered_df |-> fdf, grouped_df |-> gdf, cagr |-> c,
              ies_stats |-> Indefinido, top_ies |-> Indefinido]}

\* a faulty variant of the cache: the script works on the cached frame
\* itself, so the derived column lands in it
CacheComTotal(guardado, w) == ComTotal(guardado, w)

\* the frame st.cache_data holds after a run: each call of carregar_dados
\* hands the script a copy, and line 126 copies again, so the column that
\* line 141 adds never reaches it
CacheApos(guardado, w) == guardado

\* the widget values of the state
W == Widgets(dimensao, metrica, estados, municipios, coredes, ies_list,
             status_juridico, ano_range)

\* a run of the script with widget values w over the cached frame
Executar(w) ==
    /\ \E r \in Execucoes(cache, w) :
          /\ filtered_df' = r.filtered_df
          /\ grouped_df' = r.grouped_df
          /\ cagr' = r.cagr
          /\ ies_stats' = r.ies_stats
          /\ top_ies' = r.top_ies
    /\ cache' = CacheApos(cache, w)
    /\ dimensao' = w.dimensao
    /\ metrica' = w.metrica
    /\ estados' = w.estados
    /\ municipios' = w.municipios
    /\ coredes' = w.coredes
    /\ ies_list' = w.ies_list
    /\ status_juridico' = w.status_juridico
    /\ ano_range' = w.ano_range
    /\ UNCHANGED <<raw, erro>>

----------------------------------------------------------------------------
(* The parquet files of the model. *)

\* a parquet file with the rows S of Registros, in order
RECURSIVE Linhas(_, _)
Linhas(S, i) ==
    IF i > Len(Registros) THEN <<>>
    ELSE (IF i \in S THEN <<Registros[i]>> ELSE <<>>) \o Linhas(S, i + 1)

Arquivos ==
    {[columns |-> ColunasArquivo, rows |-> Linhas(S, 1)] :
        S \in {T \in SUBSET (1..Len(Registros)) :
                  Cardinality(T) >= 1 /\ Cardinality(T) <= MaxRows}}

\* a parquet file of k institutions, one row each, in alternate years,
\* the counts rising with the institution (g = 2 makes pairs of equal
\* counts in the first column)
NomesIES ==
    <<"IES 01", "IES 02", "IES 03", "IES 04", "IES 05", "IES 06", "IES 07",
      "IES 08", "IES 09", "IES 10", "IES 11", "IES 12", "IES 13", "IES 14",
      "IES 15", "IES 16", "IES 17", "IES 18">>

ArquivosIES ==
    {[columns |-> ColunasArquivo,
      rows |-> Lista([i \in 1..k |->
                  Registro(IF i % 2 = 1 THEN "2019" ELSE "2021",
                           "RS", "Porto Alegre", "Metropolitano",
                           NomesIES[i], "Privada", "Física",
                           "Astronomia / Física", "Física",
                           ((i - 1) \div g) * 10, i,
                           50 * i * (i - 1), 2 * i)])] :
        k \in 1..MaxIES, g \in 1..2}

\* the same file under another schema: the columns of `ausentes` dropped
\* and the columns of `apelidados` under a similar name
Apelido(col) ==
    CASE col = "COREDE" -> "Nome COREDE"
      [] col = "IES" -> "Sigla IES"
      [] col = "Status Jurídico" -> "Categoria Administrativa"
      [] col = "UF" -> "Estado"
      [] OTHER -> col

ComEsquema(tabela, ausentes, apelidados) ==
    LET fica == SelectSeq(tabela.columns, LAMBDA c : c \notin ausentes)
        nome(c) == IF c \in apelidados THEN Apelido(c) ELSE c
    IN [columns |-> Lista([i \in DOMAIN fica |-> nome(fica[i])]),
        rows |-> Lista([i \in DOMAIN tabela.rows |->
                    [c \in {nome(k) : k \in Range(fica)} |->
                        LET de == CHOOSE k \in Range(fica) : nome(k) = c
                        IN tabela.rows[i][de]]])]

ColunasEsperadas ==
    {"Ano", "COREDE", "IES", "Status Jurídico"} \cup Range(colunas_matriculados)

\* the files with the most rows, and the same with the row without a year
ArquivosCarga ==
    LET cheios == {x \in Arquivos :
                      \A y \in Arquivos : Len(y.rows) <= Len(x.rows)}
    IN cheios \cup {[x EXCEPT !.rows = Append(x.rows, RegistroSemAno)] :
                       x \in cheios}

Esquemas ==
    {ComEsquema(t, a, p) :
        t \in ArquivosCarga,
        a \in {x \in SUBSET ColunasEsperadas : Cardinality(x) <= MaxAusentes},
        p \in SUBSET {"COREDE", "IES", "Status Jurídico", "UF"}}

----------------------------------------------------------------------------
(* The actions: the first run of the script, and one run per interaction. *)

Carregado == cache # Indefinido

SemSaida ==
    /\ filtered_df' = Indefinido
    /\ grouped_df' = Indefinido
    /\ cagr' = NaoCalculado
    /\ ies_stats' = Indefinido
    /\ top_ies' = Indefinido

\* the first run: carregar_dados reads the file and the widgets take their
\* default values (lines 103-123); a KeyError of carregar_dados or the
\* ValueError of int(NaN) at the slider ends the run
PrimeiraExecucao ==
    /\ ~Carregado
    /\ erro = ""
    /\ LET r == carregar_dados(raw)
       IN IF r.erro # ""
          THEN /\ erro' = r.erro
               /\ SemSaida
               /\ UNCHANGED <<raw, cache, widgets>>
          ELSE IF AnosValidos(r.df) = {}
          THEN /\ erro' = "ValueError: int(NaN)"
               /\ cache' = r.df
               /\ SemSaida
               /\ UNCHANGED <<raw, widgets>>
          ELSE LET w == Widgets(Dimensoes[1], Metricas[1], {}, {}, {}, {}, {},
                                <<Min(AnosValidos(r.df)),
                                  Max(AnosValidos(r.df))>>)
               IN /\ \E x \in Execucoes(r.df, w) :
                        /\ filtered_df' = x.filtered_df
                        /\ grouped_df' = x.grouped_df
                        /\ cagr' = x.cagr
                        /\ ies_stats' = x.ies_stats
                        /\ top_ies' = x.top_ies
                  /\ cache' = CacheApos(r.df, w)
                  /\ dimensao' = w.dimensao
                  /\ metrica' = w.metrica
                  /\ estados' = w.estados
                  /\ municipios' = w.municipios
                  /\ coredes' = w.coredes
                  /\ ies_list' = w.ies_list
                  /\ status_juridico' = w.status_juridico
                  /\ ano_range' = w.ano_range
                  /\ UNCHANGED <<raw, erro>>

InitEm(arquivos) ==
    /\ raw \in arquivos
    /\ cache = Indefinido
    /\ erro = ""
    /\ dimensao = Dimensoes[1]
    /\ metrica = Metricas[1]
    /\ estados = {}
    /\ municipios = {}
    /\ coredes = {}
    /\ ies_list = {}
    /\ status_juridico = {}
    /\ ano_range = <<0, 0>>
    /\ filtered_df = Indefinido
    /\ grouped_df = Indefinido
    /\ cagr = NaoCalculado
    /\ ies_stats = Indefinido
    /\ top_ies = Indefinido

\* the user can interact once a run has drawn the widgets
Interativo == Carregado /\ erro = "" /\ Len(cache.rows) <= MaxRows

Selecionados ==
    Cardinality(estados) + Cardinality(municipios) + Cardinality(coredes)
    + Cardinality(ies_list) + Cardinality(status_juridico)

\* a multiselect with selection sel after the user clicks option v
Alternar(sel, v) == IF v \in sel THEN sel \ {v} ELSE sel \cup {v}

PodeAlternar(sel, v) == v \in sel \/ Selecionados < MaxSelecionados

SelecionarDimensao(d) ==
    /\ Interativo
    /\ d # dimensao
    /\ Executar([W EXCEPT !.dimensao = d])

SelecionarMetrica(m) ==
    /\ Interativo
    /\ m # metrica
    /\ Executar([W EXCEPT !.metrica = m])

AlternarEstado(v) ==
    /\ Interativo
    /\ v \in Unique(cache, "Estado")
    /\ PodeAlternar(estados, v)
    /\ Executar([W EXCEPT !.estados = Alternar(estados, v)])

AlternarMunicipio(v) ==
    /\ Interativo
    /\ v \in Unique(cache, "Município")
    /\ PodeAlternar(municipios, v)
    /\ Executar([W EXCEPT !.municipios = Alternar(municipios, v)])

AlternarCorede(v) ==
    /\ Interativo
    /\ v \in Unique(cache, "COREDE")
    /\ PodeAlternar(coredes, v)
    /\ Executar([W EXCEPT !.coredes = Alternar(coredes, v)])

AlternarIES(v) ==
    /\ Interativo
    /\ v \in Unique(cache, "IES")
    /\ PodeAlternar(ies_list, v)
    /\ Executar([W EXCEPT !.ies_list = Alternar(ies_list, v)])

AlternarStatus(v) ==
    /\ Interativo
    /\ v \in Unique(cache, "Status Jurídico")
    /\ PodeAlternar(status_juridico, v)
    /\ Executar([W EXCEPT !.status_juridico = Alternar(status_juridico, v)])

MoverAno(lo, hi) ==
    /\ Interativo
    /\ lo <= hi
    /\ <<lo, hi>> # ano_range
    /\ Executar([W EXCEPT !.ano_range = <<lo, hi>>])

\* every cell value a multiselect can offer
Valores == UNION {Unique(cache, c) : c \in {"Estado", "Município", "COREDE",
                                           "IES", "Status Jurídico"}}

AnosSlider ==
    IF AnosValidos(cache) = {} THEN {}
    ELSE Min(AnosValidos(cache))..Max(AnosValidos(cache))

Next ==
    \/ PrimeiraExecucao
    \/ \E d \in Range(Dimensoes) : SelecionarDimensao(d)
    \/ \E m \in Range(Metricas) : SelecionarMetrica(m)
    \/ \E v \in Valores : AlternarEstado(v)
    \/ \E v \in Valores : AlternarMunicipio(v)
    \/ \E v \in Valores : AlternarCorede(v)
    \/ \E v \in Valores : AlternarIES(v)
    \/ \E v \in Valores : AlternarStatus(v)
    \/ \E lo \in AnosSlider, hi \in AnosSlider : MoverAno(lo, hi)

\* the dashboard over the files of the model
Init == InitEm(Arquivos \cup ArquivosIES)

Spec == Init /\ [][Next]_vars

\* the load alone, over files whose schema varies
InitEsquemas == InitEm(Esquemas)

NextCarga == PrimeiraExecucao

SpecCarga == InitEsquemas /\ [][NextCarga]_vars

----------------------------------------------------------------------------
(* Vocabulary of the properties. *)

\* a run of the script has completed over the loaded data
Executado == Carregado /\ erro = ""

\* the metric of one record, from its four counts
MetricaDoRegistro(r, m) ==
    IF m = "Total Matriculados"
    THEN r[colunas_matriculados[1]] + r[colunas_matriculados[2]]
         + r[colunas_matriculados[3]] + r[colunas_matriculados[4]]
    ELSE r[m]

\* the metric summed over the rows of a list that satisfy p
SomaMetrica(rows, m, p(_)) ==
    LET sel == SelectSeq(rows, p)
    IN SumSeq(Lista([i \in DOMAIN sel |-> MetricaDoRegistro(sel[i], m)]))

\* the sum of the time-series table of the state
TotalSerie == SumSeq(Coluna(grouped_df, metrica))

\* the sum of the time-series table a run with widget values w computes
TotalSerieDe(w) ==
    SumSeq(Coluna(agrupar(ComTotal(filtered(cache, w), w), w), w.metrica))

Abs(x) == IF x < 0 THEN -x ELSE x

----------------------------------------------------------------------------
(* C10: the time-series table. *)

----------------------------------------------------------------------------
(* C1, C9: the growth rate. *)

\* the years of the time-series table, in order
AnosDaSerie == Coluna(grouped_df, "Ano")

\* the metric summed over all the rows of the time series of one year
TotalDoAno(a) ==
    LET sel == SelectSeq(grouped_df.rows, LAMBDA r : r["Ano"] = a)
    IN SumSeq(Lista([i \in DOMAIN sel |-> sel[i][metrica]]))

PrimeiroAno == AnosDaSerie[1]

UltimoAno == AnosDaSerie[Len(AnosDaSerie)]

\* C1: whenever the time series has one distinct year only, or the total
\* of its first year is 0, or its first and last years are equal, the run
\* completes and calcular_cagr returns exactly 0.
C1_CagrDegenerado ==
    (Executado /\ ~Empty(grouped_df)) =>
        ((\/ Cardinality(Range(AnosDaSerie)) = 1
          \/ TotalDoAno(PrimeiroAno) = 0
          \/ PrimeiroAno = UltimoAno)
            => (cagr.calculado /\ cagr.valor = Zero))

\* a series of two years whose first year totals 0 and whose last does not
C1_Witness ==
    /\ Executado
    /\ Len(grouped_df.rows) >= 2
    /\ PrimeiroAno < UltimoAno
    /\ TotalDoAno(PrimeiroAno) = 0
    /\ TotalDoAno(UltimoAno) > 0
    /\ cagr.calculado
    /\ cagr.valor = Zero

\* the growth rate between the totals of the first and of the last year:
\* (last / first) ^ (1 / (last_year - first_year)) - 1
CagrPorAno ==
    calcular_cagr(<<TotalDoAno(PrimeiroAno), TotalDoAno(UltimoAno)>>,
                  <<PrimeiroAno, UltimoAno>>)

\* C9: the growth rate shown is the one between the metric summed over all
\* dimension values of the earliest year and the metric summed over all
\* dimension values of the latest year, with exponent 1 / (last_year -
\* first_year); records (2019, 100) and (2020, 121) give 0.21.
C9_CagrPorAno ==
    (Executado /\ ~Empty(grouped_df)) =>
        /\ cagr.calculado
        /\ cagr.valor = CagrPorAno
        /\ (/\ AnosDaSerie = <<2019, 2020>>
            /\ Coluna(grouped_df, metrica) = <<100, 121>>)
               => cagr.valor = [num |-> 121, den |-> 100, raiz |-> 1]

----------------------------------------------------------------------------
(* C2, C4: the ranking of institutions. *)

ParticipacoesIES == Coluna(ies_stats, "Market Share (%)")

\* Series.sum() of the shares: NaN cells are skipped
SomaParticipacoes ==
    SumSeq(Lista([k \in DOMAIN ParticipacoesIES |->
                     IF ParticipacoesIES[k] = NaN THEN 0
                     ELSE ParticipacoesIES[k]]))

TotalGeral == SumSeq(Coluna(ies_stats, metrica))

\* C2 as claimed: in every non-empty ranking the market shares sum to
\* 100.00 within 0.1, whatever the institutions and their metric values
\* (shares are held in hundredths: 10000 is 100.00, 10 is 0.1).
C2_Original ==
    (Executado /\ ~Empty(ies_stats)) =>
        /\ \A k \in DOMAIN ParticipacoesIES : ParticipacoesIES[k] # NaN
        /\ Abs(SomaParticipacoes - 10000) <= 10

\* C2 amended: in every non-empty ranking of K institutions, when the grand
\* total is positive every share is the institution's sum over the grand
\* total, times 100, rounded to 2 decimals, and the shares sum to 100.00
\* within 0.005 * K (so within 0.1 up to 20 institutions); when the grand
\* total is 0 every share is NaN.
C2_Amended ==
    (Executado /\ ~Empty(ies_stats)) =>
        LET r == ies_stats.rows
        IN IF TotalGeral > 0
           THEN /\ \A k \in DOMAIN r :
                     /\ r[k]["Market Share (%)"] # NaN
                     /\ Abs(r[k]["Market Share (%)"] * TotalGeral
                            - r[k][metrica] * 10000) * 2 <= TotalGeral
                /\ 2 * Abs(SomaParticipacoes - 10000) <= Len(r)
                /\ Len(r) <= 20 => Abs(SomaParticipacoes - 10000) <= 10
           ELSE \A k \in DOMAIN r : r[k]["Market Share (%)"] = NaN

\* a ranking of several institutions whose rounded shares do not sum to
\* exactly 100.00
C2_Witness ==
    /\ Executado
    /\ Len(ies_stats.rows) >= 3
    /\ TotalGeral > 0
    /\ SomaParticipacoes # 10000

\* C4: after every run over a non-empty filtered record set the full ranked
\* table has one row per institution holding the institution's summed
\* metric, is ordered by summed metric non-increasing, carries ranks 1..K
\* in row order, and the display view is exactly its first min(15, K) rows;
\* A=300, B=100, C=0 gives shares 75.00, 25.00, 0.00 and ranks 1, 2, 3.
C4_Ranking ==
    (Executado /\ ~Empty(filtered_df)) =>
        LET r == ies_stats.rows
            t == top_ies.rows
            K == Cardinality(Unique(filtered_df, "IES"))
        IN /\ Len(r) = K
           /\ {r[k]["IES"] : k \in DOMAIN r} = Unique(filtered_df, "IES")
           /\ \A k \in DOMAIN r :
                /\ r[k]["Ranking"] = k
                /\ r[k][metrica] =
                     SomaMetrica(filtered_df.rows, metrica,
                                 LAMBDA x : x["IES"] = r[k]["IES"])
                /\ k > 1 => r[k - 1][metrica] >= r[k][metrica]
           /\ Len(t) = (IF K < 15 THEN K ELSE 15)
           /\ \A k \in DOMAIN t :
                /\ t[k]["IES"] = r[k]["IES"]
                /\ t[k][metrica] = r[k][metrica]
                /\ t[k]["Market Share (%)"] = r[k]["Market Share (%)"]
           /\ Coluna(ies_stats, metrica) = <<300, 100, 0>>
                => /\ ParticipacoesIES = <<7500, 2500, 0>>
                   /\ Coluna(ies_stats, "Ranking") = <<1, 2, 3>>

\* a ranking of more institutions than the display view holds
C4_Witness ==
    /\ Executado
    /\ Len(ies_stats.rows) > 15
    /\ Len(top_ies.rows) = 15
    /\ ies_stats.rows[1][metrica] > ies_stats.rows[16][metrica]

\* the ranking of the scenario: A = 300, B = 100, C = 0
C4_Cenario ==
    /\ Executado
    /\ Coluna(ies_stats, metrica) = <<300, 100, 0>>

----------------------------------------------------------------------------
(* C3: the filters. *)

FiltrosCategoricos ==
    {"estados", "municipios", "coredes", "ies_list", "status_juridico"}

\* the column a multiselect filters on
ColunaDoFiltro(f) ==
    CASE f = "estados" -> "Estado"
      [] f = "municipios" -> "Município"
      [] f = "coredes" -> "COREDE"
      [] f = "ies_list" -> "IES"
      [] f = "status_juridico" -> "Status Jurídico"

\* the widget values of the state with the selection of filter f set to sel
ComFiltro(f, sel) ==
    CASE f = "estados" -> [W EXCEPT !.estados = sel]
      [] f = "municipios" -> [W EXCEPT !.municipios = sel]
      [] f = "coredes" -> [W EXCEPT !.coredes = sel]
      [] f = "ies_list" -> [W EXCEPT !.ies_list = sel]
      [] f = "status_juridico" -> [W EXCEPT !.status_juridico = sel]

\* C3 as claimed: for each of the five categorical filters, removing any one
\* value from the filter's allowed set, everything else fixed, never
\* increases the total of the time-series table.
C3_Original ==
    Executado =>
        \A f \in FiltrosCategoricos : \A v \in W[f] :
            TotalSerieDe(ComFiltro(f, W[f] \ {v})) <= TotalSerie

\* C3 amended: for each of the five categorical filters, removing one value
\* from an allowed set that holds at least two values, everything else
\* fixed, never increases the total of the time-series table; removing the
\* only value lifts the restriction and never decreases the total.
C3_Amended ==
    Executado =>
        \A f \in FiltrosCategoricos :
            /\ \A v \in W[f] :
                 IF W[f] # {v}
                 THEN TotalSerieDe(ComFiltro(f, W[f] \ {v})) <= TotalSerie
                 ELSE TotalSerieDe(ComFiltro(f, {})) >= TotalSerie
            /\ W[f] # {} =>
                 \A v \in Unique(cache, ColunaDoFiltro(f)) \ W[f] :
                     TotalSerie <= TotalSerieDe(ComFiltro(f, W[f] \cup {v}))

\* an allowed set of two values and a removal that makes the total
\* smaller without making it 0
C3_Witness ==
    /\ Executado
    /\ \E f \in FiltrosCategoricos :
          /\ Cardinality(W[f]) = 2
          /\ \E v \in W[f] :
                /\ TotalSerieDe(ComFiltro(f, W[f] \ {v})) < TotalSerie
                /\ TotalSerieDe(ComFiltro(f, W[f] \ {v})) > 0

----------------------------------------------------------------------------
(* C5: the filters exclude every record. *)

----------------------------------------------------------------------------
(* C8: the cached frame and the runs. *)

----------------------------------------------------------------------------
(* C6, C7: carregar_dados over the schemas of SpecCarga. *)

\* the first run is over
PrimeiraExecucaoFeita == Carregado \/ erro # ""

\* C6: carregar_dados never fails because an expected column is absent
\* from the file: for every subset of the expected columns missing, it
\* completes and its result holds every expected column.
C6_NuncaFalha ==
    PrimeiraExecucaoFeita =>
        /\ Carregado
        /\ \A c \in ColunasEsperadas : HasColumn(cache, c)

\* the three columns with a default literal: name, patterns of the
\* similarly-named columns, literal
ColunasComPadrao ==
    {<<"COREDE", {"COREDE"}, "NA">>,
     <<"IES", {"IES", "Instituição"}, "Não informado">>,
     <<"Status Jurídico", {"Status", "Jurídico", "Categoria"},
       "Não informado">>}

\* the column of the file that column c of the result is read from ("" if
\* none): the exact one, else the first similarly-named one
Origem(c, pats) ==
    IF HasColumn(raw, c) THEN c
    ELSE IF ColunasParecidas(raw, pats) # <<>>
         THEN ColunasParecidas(raw, pats)[1]
         ELSE ""

\* C7: after carregar_dados each of COREDE, IES and Status Jurídico is
\* present in every record with a non-null string value, and where the
\* column is missing from the file or the cell is null the value is the
\* default literal, on the exact, the similarly-named and the no-column
\* path.
C7_PadraoNosTresCaminhos ==
    Carregado =>
        \A t \in ColunasComPadrao :
            /\ HasColumn(cache, t[1])
            /\ \A i \in DOMAIN cache.rows :
                 /\ cache.rows[i][t[1]] # None
                 /\ (\/ Origem(t[1], t[2]) = ""
                     \/ raw.rows[i][Origem(t[1], t[2])] = None)
                        => cache.rows[i][t[1]] = t[3]

====
